---- MODULE Spec2Model ----
(***************************************************************************)
(* cam_control.py: CameraControl (capture thread, optional preview thread, *)
(* mutex-guarded last frame) and describe_image_llava (vision client).     *)
(*                                                                         *)
(* One caller thread issues the public calls; every Capture Loop and       *)
(* Preview Loop thread the calls start runs concurrently with it.  An      *)
(* action is one access to the controller's shared state (a field read or  *)
(* write, a lock operation, a device call) together with the thread-local  *)
(* computation that follows it, in program order; a device read, a sleep,  *)
(* a render tick and a network request are steps of their own.  The named  *)
(* window is not part of the state: imshow, waitKey and destroyWindow are  *)
(* local to the thread that calls them.                                    *)
(***************************************************************************)
EXTENDS Integers, Sequences, FiniteSets, TLC

\* ---------------------------------------------------------------- bounds
MaxCalls == 3     \* public calls issued by the caller thread

\* ------------------------------------------------------------- constants
ESC == 27         \* key code that dismisses the preview
KeyMask == 256    \* waitKey(1) & 0xFF keeps the low byte

VARIABLES
  running,          \* self.running
  cap,              \* self.cap: a device handle, or None
  last_frame,       \* self.last_frame: px of the stored frame, or NoFrame
  preview,          \* self.preview
  preview_arg,      \* the constructor argument preview (preview requested)
  preview_running,  \* self._preview_running
  preview_thread,   \* self._preview_thread: index of the last thread created
  lock,             \* self.lock: the thread that owns it, or NoOwner
  handles,          \* every VideoCapture object created: whether the device
                    \* was acquired, whether it is open, release() calls made
  caller,           \* the caller thread: call in progress, position, result,
                    \* and the response its request received
  loops,            \* the Capture Loop threads started so far
  previews,         \* the Preview Loop threads started so far
  nCalls,           \* public calls issued so far
  netRequests,      \* HTTP requests sent so far
  stored            \* px of the frame the last Frame Store write put

vars == <<running, cap, last_frame, preview, preview_arg, preview_running,
          preview_thread, lock, handles, caller, loops, previews, nCalls,
          netRequests, stored>>

\* ----------------------------------------------------------------- values
None == 0                               \* self.cap = None
NoFrame == 0                            \* a frame reference that is None
NoOwner == <<"none", 0>>
CallerId == <<"caller", 0>>
LoopId(i) == <<"loop", i>>
PreviewId(j) == <<"preview", j>>

\* What a captured image can show (px > 0); -1 is an image the caller
\* overwrote.
Pixels == {1, 2}
Overwritten == 0 - 1

\* Keys waitKey(1) can report: no key (-1), ESC, ESC with a modifier bit above
\* the low byte, and another key.
Keys == {-1, ESC, ESC + KeyMask, 113}

\* A frame the caller holds: its pixels, and whether it is the very object
\* self.last_frame refers to.  NoRef is the caller holding None.
NoRef == [px |-> NoFrame, same |-> FALSE]

\* numpy.ndarray.copy(): a new object with the same content.
CopyAliased(f) == [px |-> f, same |-> TRUE]
Copy(f) == [px |-> f, same |-> FALSE]

\* What requests.post / raise_for_status / resp.json() can produce:
\*   net:   "ok" | "timeout" (post raises) | "status" (raise_for_status raises)
\*   body:  "object" | "array" | "null" | "notjson" (resp.json() raises)
\*   field: type of data["response"]: "missing" | "string" | "null" | "number"
\* NoResp is the caller having sent no request in the call.
Resp(n, b, f, t) == [net |-> n, body |-> b, field |-> f, text |-> t]
NoResp == Resp("none", "none", "none", <<>>)

\* cv2.VideoCapture: isOpened() and release() on a handle
IsOpened(h) == handles[h].open
Released(h) ==
  [handles EXCEPT ![h].open = FALSE, ![h].releases = @ + 1]

\* threading.Lock.acquire(): blocks until the lock is free.
AcquireUnguarded == TRUE
CanAcquire == lock = NoOwner

Init ==
  /\ running = FALSE
  /\ cap = None
  /\ last_frame = NoFrame
  /\ preview_arg \in BOOLEAN
  /\ preview = preview_arg          \* self.preview = preview
  /\ preview_running = FALSE
  /\ preview_thread = 0
  /\ lock = NoOwner
  /\ handles = <<>>
  /\ caller = [op |-> "none", pc |-> "idle", ret |-> "none", line |-> 0,
               frame |-> NoRef, resp |-> NoResp, text |-> <<>>]
  /\ loops = <<>>
  /\ previews = <<>>
  /\ nCalls = 0
  /\ netRequests = 0
  /\ stored = NoFrame

\* ------------------------------------------------- Capture Loop (_loop)
LoopAt(i, p) == loops[i].pc = p
LoopGoto(i, p) == loops' = [loops EXCEPT ![i].pc = p]

\* while self.running ...
LoopTestRunning(i) ==
  /\ LoopAt(i, "l_run")
  /\ LoopGoto(i, IF running THEN "l_cap" ELSE "x_test")
  /\ UNCHANGED <<running, cap, last_frame, preview, preview_arg,
                 preview_running, preview_thread, lock, handles, caller,
                 previews, nCalls, netRequests, stored>>

\* ... and self.cap:
LoopTestCap(i) ==
  /\ LoopAt(i, "l_cap")
  /\ LoopGoto(i, IF cap # None THEN "l_read" ELSE "x_test")
  /\ UNCHANGED <<running, cap, last_frame, preview, preview_arg,
                 preview_running, preview_thread, lock, handles, caller,
                 previews, nCalls, netRequests, stored>>

\* self.cap.read: the attribute lookup; on None it raises AttributeError,
\* which ends the thread.
LoopReadCap(i) ==
  /\ LoopAt(i, "l_read")
  /\ loops' = [loops EXCEPT ![i].pc = IF cap = None THEN "crashed" ELSE "reading",
                            ![i].h = cap]
  /\ UNCHANGED <<running, cap, last_frame, preview, preview_arg,
                 preview_running, preview_thread, lock, handles, caller,
                 previews, nCalls, netRequests, stored>>

\* ok, frame = <handle>.read() with ok true: a new frame object.
LoopReadOk(i) ==
  /\ LoopAt(i, "reading")
  /\ IsOpened(loops[i].h)
  /\ \E px \in Pixels :
       loops' = [loops EXCEPT ![i].pc = "l_lock", ![i].h = None,
                              ![i].frame = px]
  /\ UNCHANGED <<running, cap, last_frame, preview, preview_arg,
                 preview_running, preview_thread, lock, handles, caller,
                 previews, nCalls, netRequests, stored>>

\* ok false (always so on a released handle): if not ok:
LoopReadFail(i) ==
  /\ LoopAt(i, "reading")
  /\ loops' = [loops EXCEPT ![i].pc = "l_sleep", ![i].h = None]
  /\ UNCHANGED <<running, cap, last_frame, preview, preview_arg,
                 preview_running, preview_thread, lock, handles, caller,
                 previews, nCalls, netRequests, stored>>

\* time.sleep(0.01); continue
LoopSleep(i) ==
  /\ LoopAt(i, "l_sleep")
  /\ LoopGoto(i, "l_run")
  /\ UNCHANGED <<running, cap, last_frame, preview, preview_arg,
                 preview_running, preview_thread, lock, handles, caller,
                 previews, nCalls, netRequests, stored>>

\* with self.lock:
LoopLock(i) ==
  /\ LoopAt(i, "l_lock")
  /\ CanAcquire
  /\ lock' = LoopId(i)
  /\ LoopGoto(i, "l_store")
  /\ UNCHANGED <<running, cap, last_frame, preview, preview_arg,
                 preview_running, preview_thread, handles, caller, previews,
                 nCalls, netRequests, stored>>

\* self.last_frame = frame: the slot now refers to the new object, so a
\* frame the caller holds is no longer the stored one.
LoopStore(i) ==
  /\ LoopAt(i, "l_store")
  /\ last_frame' = loops[i].frame
  /\ stored' = loops[i].frame
  /\ caller' = [caller EXCEPT !.frame.same = FALSE]
  /\ loops' = [loops EXCEPT ![i].pc = "l_unlock", ![i].frame = NoFrame]
  /\ UNCHANGED <<running, cap, preview, preview_arg, preview_running,
                 preview_thread, lock, handles, previews, nCalls,
                 netRequests>>

\* leaving the with block
LoopUnlock(i) ==
  /\ LoopAt(i, "l_unlock")
  /\ lock' = NoOwner
  /\ LoopGoto(i, "l_run")
  /\ UNCHANGED <<running, cap, last_frame, preview, preview_arg,
                 preview_running, preview_thread, handles, caller, previews,
                 nCalls, netRequests, stored>>

\* after the loop: if self.cap:
LoopExitSkipsRelease(i) ==
  /\ LoopAt(i, "x_test")
  /\ LoopGoto(i, "done")
  /\ UNCHANGED <<running, cap, last_frame, preview, preview_arg,
                 preview_running, preview_thread, lock, handles, caller,
                 previews, nCalls, netRequests, stored>>

LoopExitTest(i) ==
  /\ LoopAt(i, "x_test")
  /\ LoopGoto(i, IF cap # None THEN "x_rel" ELSE "done")
  /\ UNCHANGED <<running, cap, last_frame, preview, preview_arg,
                 preview_running, preview_thread, lock, handles, caller,
                 previews, nCalls, netRequests, stored>>

\* self.cap.release(); on None the lookup raises AttributeError.
LoopRelease(i) ==
  /\ LoopAt(i, "x_rel")
  /\ IF cap = None
       THEN LoopGoto(i, "crashed") /\ UNCHANGED handles
       ELSE LoopGoto(i, "x_clr") /\ handles' = Released(cap)
  /\ UNCHANGED <<running, cap, last_frame, preview, preview_arg,
                 preview_running, preview_thread, lock, caller, previews,
                 nCalls, netRequests, stored>>

\* self.cap = None
LoopClearCap(i) ==
  /\ LoopAt(i, "x_clr")
  /\ cap' = None
  /\ LoopGoto(i, "done")
  /\ UNCHANGED <<running, last_frame, preview, preview_arg, preview_running,
                 preview_thread, lock, handles, caller, previews, nCalls,
                 netRequests, stored>>

LoopStep(i) ==
  \/ LoopTestRunning(i) \/ LoopTestCap(i) \/ LoopReadCap(i)
  \/ LoopReadOk(i) \/ LoopReadFail(i) \/ LoopSleep(i)
  \/ LoopLock(i) \/ LoopStore(i) \/ LoopUnlock(i)
  \/ LoopExitTest(i) \/ LoopRelease(i) \/ LoopClearCap(i)

LoopAlive(i) == loops[i].pc \notin {"done", "crashed"}

\* ------------------------------------------------------ the caller thread
At(p) == caller.pc = p
CanCall == caller.pc = "idle" /\ nCalls < MaxCalls
Goto(p) == caller' = [caller EXCEPT !.pc = p]
\* a call begins: the results of the call before it are dropped
Begin(o, p) ==
  caller' = [op |-> o, pc |-> p, ret |-> "none", line |-> 0, frame |-> NoRef,
             resp |-> NoResp, text |-> <<>>]
\* the call in progress returns r from the return statement at source line l
Return(r, l) ==
  caller' = [caller EXCEPT !.op = "none", !.pc = "idle", !.ret = r, !.line = l]
\* a call that returns at its first statement
BeginReturn(r, l) ==
  caller' = [op |-> "none", pc |-> "idle", ret |-> r, line |-> l,
             frame |-> NoRef, resp |-> NoResp, text |-> <<>>]

\* ---- open()
\* if self.running: return True
OpenReopens == FALSE
OpenAlreadyRunning == running

Open ==
  /\ CanCall
  /\ nCalls' = nCalls + 1
  /\ IF OpenAlreadyRunning THEN BeginReturn("True", 75) ELSE Begin("open", "o_new")
  /\ UNCHANGED <<running, cap, last_frame, preview, preview_arg,
                 preview_running, preview_thread, lock, handles, loops,
                 previews, netRequests, stored>>

\* self.cap = cv2.VideoCapture(self.index): the device is acquired or not.
OpenNew ==
  /\ At("o_new")
  /\ \E ok \in BOOLEAN :
       handles' = Append(handles,
                         [acquired |-> ok, open |-> ok, releases |-> 0])
  /\ cap' = Len(handles) + 1
  /\ Goto("o_isopen")
  /\ UNCHANGED <<running, last_frame, preview, preview_arg, preview_running,
                 preview_thread, lock, loops, previews, nCalls, netRequests,
                 stored>>

\* if not self.cap.isOpened():
OpenIsOpened ==
  /\ At("o_isopen")
  /\ IF cap = None THEN Return("AttributeError", 77)
     ELSE Goto(IF IsOpened(cap) THEN "o_set" ELSE "o_ftest")
  /\ UNCHANGED <<running, cap, last_frame, preview, preview_arg,
                 preview_running, preview_thread, lock, handles, loops,
                 previews, nCalls, netRequests, stored>>

\* if self.cap:
OpenFailTest ==
  /\ At("o_ftest")
  /\ Goto(IF cap # None THEN "o_frel" ELSE "o_fclr")
  /\ UNCHANGED <<running, cap, last_frame, preview, preview_arg,
                 preview_running, preview_thread, lock, handles, loops,
                 previews, nCalls, netRequests, stored>>

\* self.cap.release()
OpenFailRelease ==
  /\ At("o_frel")
  /\ IF cap = None
       THEN Return("AttributeError", 79) /\ UNCHANGED handles
       ELSE Goto("o_fclr") /\ handles' = Released(cap)
  /\ UNCHANGED <<running, cap, last_frame, preview, preview_arg,
                 preview_running, preview_thread, lock, loops, previews,
                 nCalls, netRequests, stored>>

\* self.cap = None; return False
OpenFailClear ==
  /\ At("o_fclr")
  /\ cap' = None
  /\ Return("False", 81)
  /\ UNCHANGED <<running, last_frame, preview, preview_arg, preview_running,
                 preview_thread, lock, handles, loops, previews, nCalls,
                 netRequests, stored>>

\* self.cap.set(cv2.CAP_PROP_FRAME_WIDTH, ...); self.cap.set(..._HEIGHT, ...)
\* Neither call changes the controller; each raises AttributeError on None.
OpenSet ==
  /\ At("o_set")
  /\ IF cap = None THEN Return("AttributeError", 83) ELSE Goto("o_run")
  /\ UNCHANGED <<running, cap, last_frame, preview, preview_arg,
                 preview_running, preview_thread, lock, handles, loops,
                 previews, nCalls, netRequests, stored>>

\* self.running = True
OpenSetRunning ==
  /\ At("o_run")
  /\ running' = TRUE
  /\ Goto("o_start")
  /\ UNCHANGED <<cap, last_frame, preview, preview_arg, preview_running,
                 preview_thread, lock, handles, loops, previews, nCalls,
                 netRequests, stored>>

\* t = threading.Thread(target=self._loop, daemon=True); t.start()
OpenStartLoop ==
  /\ At("o_start")
  /\ loops' = Append(loops, [pc |-> "l_run", h |-> None, frame |-> NoFrame])
  /\ Goto("o_prev")
  /\ UNCHANGED <<running, cap, last_frame, preview, preview_arg,
                 preview_running, preview_thread, lock, handles, previews,
                 nCalls, netRequests, stored>>

\* if self.preview: self.show_preview() ... return True
OpenTestPreview ==
  /\ At("o_prev")
  /\ IF preview THEN Goto("s_test") ELSE Return("True", 92)
  /\ UNCHANGED <<running, cap, last_frame, preview, preview_arg,
                 preview_running, preview_thread, lock, handles, loops,
                 previews, nCalls, netRequests, stored>>

\* ---- show_preview()
\* if self._preview_running: return
ShowAlways == FALSE
ShowAlreadyRunning == preview_running

\* show_preview() returns (at source line l): to the caller, or into open(),
\* which then returns True
ShowReturn(l) ==
  IF caller.op = "open" THEN Return("True", 92) ELSE Return("None", l)

ShowPreview ==
  /\ CanCall
  /\ nCalls' = nCalls + 1
  /\ IF ShowAlreadyRunning THEN BeginReturn("None", 127)
     ELSE Begin("show_preview", "s_pv")
  /\ UNCHANGED <<running, cap, last_frame, preview, preview_arg,
                 preview_running, preview_thread, lock, handles, loops,
                 previews, netRequests, stored>>

\* the same test, reached from open()
ShowTest ==
  /\ At("s_test")
  /\ IF ShowAlreadyRunning THEN ShowReturn(127) ELSE Goto("s_pv")
  /\ UNCHANGED <<running, cap, last_frame, preview, preview_arg,
                 preview_running, preview_thread, lock, handles, loops,
                 previews, nCalls, netRequests, stored>>

\* self.preview = True
ShowSetPreview ==
  /\ At("s_pv")
  /\ preview' = TRUE
  /\ Goto("s_pr")
  /\ UNCHANGED <<running, cap, last_frame, preview_arg, preview_running,
                 preview_thread, lock, handles, loops, previews, nCalls,
                 netRequests, stored>>

\* self._preview_running = True
ShowSetRunning ==
  /\ At("s_pr")
  /\ preview_running' = TRUE
  /\ Goto("s_thr")
  /\ UNCHANGED <<running, cap, last_frame, preview, preview_arg,
                 preview_thread, lock, handles, loops, previews, nCalls,
                 netRequests, stored>>

\* self._preview_thread = threading.Thread(...); self._preview_thread.start()
ShowStartThread ==
  /\ At("s_thr")
  /\ previews' = Append(previews, [pc |-> "p_test", has |-> FALSE])
  /\ preview_thread' = Len(previews) + 1
  /\ ShowReturn(131)
  /\ UNCHANGED <<running, cap, last_frame, preview, preview_arg,
                 preview_running, lock, handles, loops, nCalls, netRequests,
                 stored>>

\* ---- hide_preview() and close()
\* a close() that also empties the Frame Store
CloseClearsFrame ==
  /\ CanCall
  /\ nCalls' = nCalls + 1
  /\ running' = FALSE
  /\ last_frame' = NoFrame
  /\ stored' = NoFrame
  /\ Begin("close", "h_pv")
  /\ UNCHANGED <<cap, preview, preview_arg, preview_running, preview_thread,
                 lock, handles, loops, previews, netRequests>>

\* close(): self.running = False; then hide_preview()
Close ==
  /\ CanCall
  /\ nCalls' = nCalls + 1
  /\ running' = FALSE
  /\ Begin("close", "h_pv")
  /\ UNCHANGED <<cap, last_frame, preview, preview_arg, preview_running,
                 preview_thread, lock, handles, loops, previews, netRequests,
                 stored>>

\* hide_preview(): self.preview = False
HidePreview ==
  /\ \/ CanCall /\ nCalls' = nCalls + 1 /\ Begin("hide_preview", "h_pr")
     \/ At("h_pv") /\ Goto("h_pr") /\ UNCHANGED nCalls
  /\ preview' = FALSE
  /\ UNCHANGED <<running, cap, last_frame, preview_arg, preview_running,
                 preview_thread, lock, handles, loops, previews, netRequests,
                 stored>>

\* try: cv2.destroyWindow(self.window_name) except Exception: pass
\* destroyWindow raised or not; the except clause swallows it.
DestroyResult(raised) == "None"

\* self._preview_running = False; destroyWindow; return
HideSetRunning ==
  /\ At("h_pr")
  /\ preview_running' = FALSE
  /\ \E raised \in BOOLEAN :
       Return(DestroyResult(raised), IF caller.op = "close" THEN 108 ELSE 139)
  /\ UNCHANGED <<running, cap, last_frame, preview, preview_arg,
                 preview_thread, lock, handles, loops, previews, nCalls,
                 netRequests, stored>>

\* ---- get_frame()
\* with self.lock: (the call starts when the lock is acquired)
GetLock(o) ==
  /\ CanCall
  /\ CanAcquire
  /\ nCalls' = nCalls + 1
  /\ lock' = CallerId
  /\ Begin(o, "g_copy")
  /\ UNCHANGED <<running, cap, last_frame, preview, preview_arg,
                 preview_running, preview_thread, handles, loops, previews,
                 netRequests, stored>>

GetFrame == GetLock("get_frame")

\* return None if self.last_frame is None else self.last_frame.copy()
GetCopyWaits ==
  /\ At("g_copy")
  /\ last_frame # NoFrame
  /\ caller' = [caller EXCEPT !.pc = "g_unlock", !.frame = Copy(last_frame)]
  /\ UNCHANGED <<running, cap, last_frame, preview, preview_arg,
                 preview_running, preview_thread, lock, handles, loops,
                 previews, nCalls, netRequests, stored>>

GetCopy ==
  /\ At("g_copy")
  /\ caller' = [caller EXCEPT
       !.pc = "g_unlock",
       !.frame = IF last_frame = NoFrame THEN NoRef ELSE Copy(last_frame)]
  /\ UNCHANGED <<running, cap, last_frame, preview, preview_arg,
                 preview_running, preview_thread, lock, handles, loops,
                 previews, nCalls, netRequests, stored>>

\* describe_current_view(): if frame is None: return "Camera frame is not ..."
DescribeUnchecked == TRUE
DescribeHasFrame == caller.frame # NoRef

\* describe_current_view() going on to the request with the lock still held
GetUnlockKeepsLock ==
  /\ At("g_unlock")
  /\ lock' = IF caller.op = "describe_current_view" /\ DescribeHasFrame
               THEN CallerId ELSE NoOwner
  /\ IF caller.op = "get_frame"
       THEN Return(IF caller.frame = NoRef THEN "None" ELSE "frame", 112)
       ELSE IF DescribeHasFrame THEN Goto("d_post")
            ELSE Return("Camera frame is not available yet.", 121)
  /\ UNCHANGED <<running, cap, last_frame, preview, preview_arg,
                 preview_running, preview_thread, handles, loops, previews,
                 nCalls, netRequests, stored>>

\* leaving the with block; get_frame() returns
GetUnlock ==
  /\ At("g_unlock")
  /\ lock' = NoOwner
  /\ IF caller.op = "get_frame"
       THEN Return(IF caller.frame = NoRef THEN "None" ELSE "frame", 112)
       ELSE IF DescribeHasFrame THEN Goto("d_post")
            ELSE Return("Camera frame is not available yet.", 121)
  /\ UNCHANGED <<running, cap, last_frame, preview, preview_arg,
                 preview_running, preview_thread, handles, loops, previews,
                 nCalls, netRequests, stored>>

\* The caller overwrites the pixels of the frame object get_frame() returned.
\* If that object is the stored one, the store sees the change.
MutateReturned ==
  /\ At("idle")
  /\ caller.ret = "frame"
  /\ caller.frame.px > 0
  /\ caller' = [caller EXCEPT !.frame.px = Overwritten]
  /\ last_frame' = IF caller.frame.same THEN Overwritten ELSE last_frame
  /\ UNCHANGED <<running, cap, preview, preview_arg, preview_running,
                 preview_thread, lock, handles, loops, previews, nCalls,
                 netRequests, stored>>

\* ------------------------------------------- describe_image_llava (client)
Whitespace == {" ", "\t", "\n"}

\* str.strip(): drop leading and trailing whitespace.
RECURSIVE LStrip(_)
LStrip(t) == IF t # <<>> /\ Head(t) \in Whitespace THEN LStrip(Tail(t)) ELSE t

RECURSIVE RStrip(_)
RStrip(t) ==
  IF t # <<>> /\ t[Len(t)] \in Whitespace
    THEN RStrip(SubSeq(t, 1, Len(t) - 1)) ELSE t

Strip(t) == RStrip(LStrip(t))

Texts == { <<>>, <<" ">>, <<" ", "H", "i", " ">>, <<"H", " ", "i", "\n">> }

\* The responses the endpoint can give.
Responses ==
  {Resp("timeout", "notjson", "missing", <<>>),
   Resp("status", "object", "missing", <<>>),
   Resp("ok", "notjson", "missing", <<>>),
   Resp("ok", "array", "missing", <<>>),
   Resp("ok", "null", "missing", <<>>),
   Resp("ok", "object", "missing", <<>>),
   Resp("ok", "object", "null", <<>>),
   Resp("ok", "object", "number", <<>>)}
  \cup {Resp("ok", "object", "string", t) : t \in Texts}

Result(r, t) == [ret |-> r, text |-> t]

\* data.get("response", "").strip() or "Model returned empty response."
\* data.get exists on a dict only and .strip on a str only; anything else
\* raises inside the try block and is reported as a failed request.
ExtractResponse(resp) ==
  IF resp.body # "object" THEN Result("Vision request failed", <<>>)
  ELSE IF resp.field = "missing" THEN Result("Model returned empty response.", <<>>)
  ELSE IF resp.field # "string" THEN Result("Vision request failed", <<>>)
  ELSE IF Strip(resp.text) = <<>> THEN Result("Model returned empty response.", <<>>)
  ELSE Result("text", Strip(resp.text))

\* after a successful imencode: post, raise_for_status, json, extract
PostAndExtract(resp) ==
  IF resp.net # "ok" THEN Result("Vision request failed", <<>>)
  ELSE IF resp.body = "notjson" THEN Result("Vision request failed", <<>>)
  ELSE ExtractResponse(resp)

\* ---- describe_current_view()
DescribeCurrentView == GetLock("describe_current_view")

\* describe_image_llava(frame, prompt): ok, buf = cv2.imencode(".jpg", frame);
\* if not ok: return "Failed to encode camera frame."; otherwise
\* resp = requests.post(OLLAMA_URL, json=payload, timeout=120) ... return
DescribePost ==
  /\ At("d_post")
  /\ \E encoded \in BOOLEAN :
       IF encoded
         THEN /\ netRequests' = netRequests + 1
              /\ \E resp \in Responses :
                   caller' = [caller EXCEPT
                     !.op = "none", !.pc = "idle", !.line = 122,
                     !.resp = resp,
                     !.ret = PostAndExtract(resp).ret,
                     !.text = PostAndExtract(resp).text]
         ELSE /\ Return("Failed to encode camera frame.", 122)
              /\ UNCHANGED netRequests
  /\ UNCHANGED <<running, cap, last_frame, preview, preview_arg,
                 preview_running, preview_thread, lock, handles, loops,
                 previews, nCalls, stored>>

\* ------------------------------------------- Preview Loop (_preview_loop)
PrevAt(j, p) == previews[j].pc = p
PrevGoto(j, p) == previews' = [previews EXCEPT ![j].pc = p]

\* while self._preview_running: ...; after the loop: try destroyWindow
PreviewTest(j) ==
  /\ PrevAt(j, "p_test")
  /\ PrevGoto(j, IF preview_running THEN "p_lock" ELSE "done")
  /\ UNCHANGED <<running, cap, last_frame, preview, preview_arg,
                 preview_running, preview_thread, lock, handles, caller,
                 loops, nCalls, netRequests, stored>>

\* frame = self.get_frame(): with self.lock:
PreviewLock(j) ==
  /\ PrevAt(j, "p_lock")
  /\ CanAcquire
  /\ lock' = PreviewId(j)
  /\ PrevGoto(j, "p_copy")
  /\ UNCHANGED <<running, cap, last_frame, preview, preview_arg,
                 preview_running, preview_thread, handles, caller, loops,
                 nCalls, netRequests, stored>>

\* the copy, of which the loop only asks whether it is None
PreviewCopy(j) ==
  /\ PrevAt(j, "p_copy")
  /\ previews' = [previews EXCEPT ![j].pc = "p_unlock",
                                  ![j].has = (last_frame # NoFrame)]
  /\ UNCHANGED <<running, cap, last_frame, preview, preview_arg,
                 preview_running, preview_thread, lock, handles, caller,
                 loops, nCalls, netRequests, stored>>

\* if (cv2.waitKey(1) & 0xFF) == 27:
IsCancel(key) == key % KeyMask = ESC

\* the key the render tick polls: only a tick that has a frame acts on it
KeysPolled(has) == IF has THEN Keys ELSE {-1}

\* leaving the with block; get_frame() returns
PreviewUnlock(j) ==
  /\ PrevAt(j, "p_unlock")
  /\ lock' = NoOwner
  /\ PrevGoto(j, "p_render")
  /\ UNCHANGED <<running, cap, last_frame, preview, preview_arg,
                 preview_running, preview_thread, handles, caller, loops,
                 nCalls, netRequests, stored>>

\* the render tick: imshow and waitKey (waitKey alone when there is no
\* frame); on ESC hide_preview() and break, else time.sleep(0.01) and loop.
PreviewRender(j) ==
  /\ PrevAt(j, "p_render")
  /\ \E key \in KeysPolled(previews[j].has) :
       previews' = [previews EXCEPT
         ![j].pc = IF IsCancel(key) THEN "ph_pv" ELSE "p_test",
         ![j].has = FALSE]
  /\ UNCHANGED <<running, cap, last_frame, preview, preview_arg,
                 preview_running, preview_thread, lock, handles, caller, loops,
                 nCalls, netRequests, stored>>

\* hide_preview() on the Preview Loop thread: self.preview = False
PreviewHideCloses(j) ==
  /\ PrevAt(j, "ph_pv")
  /\ running' = FALSE
  /\ preview' = FALSE
  /\ PrevGoto(j, "ph_pr")
  /\ UNCHANGED <<cap, last_frame, preview_arg, preview_running,
                 preview_thread, lock, handles, caller, loops, nCalls,
                 netRequests, stored>>

PreviewHideSetPreview(j) ==
  /\ PrevAt(j, "ph_pv")
  /\ preview' = FALSE
  /\ PrevGoto(j, "ph_pr")
  /\ UNCHANGED <<running, cap, last_frame, preview_arg, preview_running,
                 preview_thread, lock, handles, caller, loops, nCalls,
                 netRequests, stored>>

\* self._preview_running = False; try destroyWindow; break; try destroyWindow
PreviewHideSetRunning(j) ==
  /\ PrevAt(j, "ph_pr")
  /\ preview_running' = FALSE
  /\ PrevGoto(j, "done")
  /\ UNCHANGED <<running, cap, last_frame, preview, preview_arg,
                 preview_thread, lock, handles, caller, loops, nCalls,
                 netRequests, stored>>

PreviewStep(j) ==
  \/ PreviewTest(j) \/ PreviewLock(j) \/ PreviewCopy(j) \/ PreviewUnlock(j)
  \/ PreviewRender(j)
  \/ PreviewHideSetPreview(j) \/ PreviewHideSetRunning(j)

PreviewAlive(j) == previews[j].pc # "done"

\* ------------------------------------------------------------ the system
CallerStep ==
  \/ Open \/ OpenNew \/ OpenIsOpened \/ OpenFailTest \/ OpenFailRelease
  \/ OpenFailClear \/ OpenSet \/ OpenSetRunning \/ OpenStartLoop
  \/ OpenTestPreview
  \/ ShowPreview \/ ShowTest \/ ShowSetPreview \/ ShowSetRunning
  \/ ShowStartThread
  \/ Close \/ HidePreview \/ HideSetRunning
  \/ GetFrame \/ GetCopy \/ GetUnlock \/ MutateReturned
  \/ DescribeCurrentView \/ DescribePost

Next ==
  \/ CallerStep
  \/ \E i \in DOMAIN loops : LoopStep(i)
  \/ \E j \in DOMAIN previews : PreviewStep(j)

Spec == Init /\ [][Next]_vars

\* Scheduling: a thread that can take a step eventually takes it (a call in
\* progress goes on, a device read returns), and a thread waiting for the
\* lock gets it if the lock is free again and again.
CallerContinues == caller.pc # "idle" /\ CallerStep

LoopRuns(i) ==
  /\ i \in DOMAIN loops
  /\ \/ LoopTestRunning(i) \/ LoopTestCap(i) \/ LoopReadCap(i)
     \/ LoopReadOk(i) \/ LoopReadFail(i) \/ LoopSleep(i)
     \/ LoopStore(i) \/ LoopUnlock(i)
     \/ LoopExitTest(i) \/ LoopRelease(i) \/ LoopClearCap(i)

PreviewRuns(j) ==
  /\ j \in DOMAIN previews
  /\ \/ PreviewTest(j) \/ PreviewCopy(j) \/ PreviewUnlock(j)
     \/ PreviewRender(j)
     \/ PreviewHideSetPreview(j) \/ PreviewHideSetRunning(j)

Fairness ==
  /\ WF_vars(CallerContinues)
  /\ \A i \in 1..MaxCalls :
       /\ WF_vars(LoopRuns(i))
       /\ SF_vars(i \in DOMAIN loops /\ LoopLock(i))
  /\ \A j \in 1..MaxCalls :
       /\ WF_vars(PreviewRuns(j))
       /\ SF_vars(j \in DOMAIN previews /\ PreviewLock(j))

FairSpec == Spec /\ Fairness

\* ------------------------------------------------------------ properties
\* The controller holds no open device handle.
DeviceReleased == cap = None \/ ~IsOpened(cap)

\* C1, as stated: in every reachable state the preview flag
\* (_preview_running) is true only while the capture flag (running) is true.
PreviewOnlyWhileRunning == preview_running => running

\* C2, as stated, in the states the claim singles out (no call is in
\* progress, so close() has returned): whenever running is false the device
\* is released.
ReleasedWheneverNotRunning ==
  (~running /\ caller.pc = "idle") => DeviceReleased

\* C2, amended: whenever running is false, no open() is in progress and no
\* Capture Loop thread is still alive, the device is released.
ReleasedOnceLoopsExit ==
  (/\ ~running
   /\ caller.op # "open"
   /\ \A i \in DOMAIN loops : ~LoopAlive(i)) => DeviceReleased

\* C2 witness: a Capture Loop has observed the cleared flag, released the
\* handle open() acquired and ended.
LoopReleasedDevice ==
  /\ ~running
  /\ caller.pc = "idle"
  /\ loops # <<>>
  /\ \A i \in DOMAIN loops : loops[i].pc = "done"
  /\ handles[1].acquired /\ handles[1].releases = 1
  /\ cap = None

\* The last call was an open() that went on to create a handle.
OpenTriedDevice ==
  /\ caller.pc = "idle"
  /\ caller.ret \in {"True", "False", "AttributeError"}
  /\ caller.line # 75

\* C3, as stated, its first part: an open() for which the device was
\* acquirable returns True (and so does the open() after it).
AcquiredOpenReturnsTrue ==
  (OpenTriedDevice /\ handles[Len(handles)].acquired) => caller.ret = "True"

\* C3, the part that holds in every state: an open() issued right after an
\* open() that returned True returns True again and changes nothing: no new
\* handle, no new thread, no field written; with the first open() the first
\* call on the controller, exactly one Capture Loop has been started.
SecondOpenIsNoOp ==
  [][(Open /\ caller.ret = "True") =>
       /\ caller'.ret = "True" /\ caller'.pc = "idle"
       /\ nCalls = 1 => Len(loops') = 1
       /\ UNCHANGED <<running, cap, last_frame, preview, preview_running,
                      preview_thread, lock, handles, loops, previews,
                      netRequests, stored>>]_vars

\* the second of two open() calls on a new controller returned at line 75
OpenedTwice ==
  /\ nCalls = 2
  /\ caller.ret = "True" /\ caller.line = 75
  /\ Len(loops) = 1 /\ Len(handles) = 1
  /\ running

\* C4, as stated: when the device cannot be acquired, open() returns False
\* without raising and leaves the controller Closed (running false, no handle
\* retained).
FailedOpenReturnsFalse ==
  (OpenTriedDevice /\ ~handles[Len(handles)].acquired) =>
     (caller.ret = "False" /\ ~running /\ cap = None)

\* C5, as stated, its last part: once close() has returned (a Capture Loop
\* was started and running is false again) and no later open() is under way,
\* both flags are false.
FlagsFalseAfterClose ==
  (/\ ~running
   /\ loops # <<>>
   /\ caller.op \notin {"open", "close"}) => ~preview_running

\* C5, the part that holds (under FairSpec): once both flags are false and
\* no call is in progress, either every Capture Loop and Preview Loop ends
\* with the device released, or a later open() or show_preview() starts.
Quiet == caller.pc = "idle" /\ ~running /\ ~preview_running

Terminated ==
  /\ \A i \in DOMAIN loops : ~LoopAlive(i)
  /\ \A j \in DOMAIN previews : ~PreviewAlive(j)
  /\ DeviceReleased

QuietLeadsToTermination ==
  Quiet ~> (Terminated \/ caller.op \in {"open", "show_preview"})

\* C6: the slot always holds the frame the last Frame Store write put,
\* whatever the caller did to the frames it was handed; the frame get_frame()
\* copies equals that frame and is another object than the stored one.
GetFrameReturnsCopy ==
  /\ last_frame = stored
  /\ At("g_unlock") =>
       caller.frame = (IF stored = NoFrame THEN NoRef
                       ELSE [px |-> stored, same |-> FALSE])
  /\ caller.ret = "frame" => ~caller.frame.same

\* C6 witness: the caller overwrote the frame get_frame() returned and the
\* stored frame is still the one that was written.
ReturnedFrameOverwritten ==
  /\ caller.ret = "frame"
  /\ caller.frame.px = Overwritten
  /\ stored \in Pixels
  /\ last_frame = stored

\* No device read has succeeded yet on this controller.
NoReadYet ==
  stored = NoFrame /\ \A i \in DOMAIN loops : loops[i].frame = NoFrame

\* C7: while no device read has succeeded the slot is empty and get_frame()
\* hands out None; get_frame() waits for nothing but the lock: it can start
\* whenever the lock is free and each of its steps can always be taken.
AbsentBeforeFirstRead ==
  /\ NoReadYet =>
       (last_frame = NoFrame /\ caller.frame = NoRef /\ caller.ret # "frame")
  /\ (CanCall /\ lock = NoOwner) => ENABLED GetFrame
  /\ At("g_copy") => ENABLED GetCopy
  /\ At("g_unlock") => ENABLED GetUnlock

\* C7 witness: get_frame() returned None on a controller that was opened
\* and has not read a frame yet.
NoneBeforeFirstRead ==
  /\ caller.ret = "None" /\ caller.line = 112
  /\ loops # <<>>
  /\ NoReadYet

\* C8: describe_current_view() whose get_frame() found the slot empty
\* returns the fixed message; a request is sent only by a
\* describe_current_view() whose get_frame() returned a frame.
DescribeNeedsFrame ==
  [][/\ (GetCopy /\ last_frame = NoFrame) => caller'.frame = NoRef
     /\ (GetUnlock /\ caller.op = "describe_current_view"
           /\ caller.frame = NoRef) =>
          /\ caller'.ret = "Camera frame is not available yet."
          /\ caller'.pc = "idle"
     /\ netRequests' # netRequests =>
          (caller.op = "describe_current_view" /\ caller.frame # NoRef)]_vars

\* C8 witness: the fixed message came back and no request was ever sent.
DescribedNothing ==
  /\ caller.ret = "Camera frame is not available yet."
  /\ caller.line = 121
  /\ netRequests = 0

\* C9: the hide_preview() the Preview Loop runs on ESC clears
\* _preview_running and ends that loop, and leaves running, the device
\* handle, the stored frame, the lock and every Capture Loop as they were.
EscStopsOnlyPreview ==
  [][\A j \in DOMAIN previews :
       /\ (PreviewHideSetPreview(j) \/ PreviewHideSetRunning(j)) =>
            UNCHANGED <<running, cap, last_frame, lock, handles, loops, stored>>
       /\ PreviewHideSetRunning(j) =>
            (~preview_running' /\ previews'[j].pc = "done")]_vars

\* C9 witness: open() with preview requested was the only call; ESC ended
\* the Preview Loop and the capture goes on.
EscDismissedPreview ==
  /\ nCalls = 1
  /\ previews # <<>> /\ previews[1].pc = "done"
  /\ ~preview_running
  /\ running /\ IsOpened(cap)
  /\ \E i \in DOMAIN loops : LoopAlive(i)

\* C10: show_preview() with _preview_running already true (called directly
\* or from open()) starts no thread and writes no field; hide_preview()
\* returns normally with _preview_running false, whether or not
\* destroyWindow raised.
ShowIdempotentHideTotal ==
  [][/\ ((ShowPreview \/ ShowTest) /\ preview_running) =>
          /\ caller'.pc = "idle"
          /\ UNCHANGED <<running, cap, last_frame, preview, preview_running,
                         preview_thread, lock, handles, loops, previews,
                         netRequests, stored>>
     /\ HideSetRunning =>
          (~preview_running' /\ caller'.pc = "idle" /\ caller'.ret = "None")
    ]_vars

\* C10 witness: a show_preview() returned at line 127 with one Preview Loop
\* started.
ShownWhileShown ==
  /\ caller.ret = "None" /\ caller.line = 127
  /\ preview_running
  /\ Len(previews) = 1

\* An open() that started with running false returns True in this step.
OpenSucceeds ==
  caller.op = "open" /\ caller'.pc = "idle" /\ caller'.ret = "True"

\* C11, as stated: on a controller constructed with preview requested, every
\* open() that starts with running false and returns True leaves the Preview
\* Loop running (_preview_running true and a Preview Loop thread alive).
OpenStartsPreview ==
  [][(preview_arg /\ OpenSucceeds) =>
       /\ preview_running'
       /\ \E j \in DOMAIN previews' : previews'[j].pc # "done"]_vars

\* C11, the part that holds: the first call on such a controller, an open()
\* that returns True, leaves the Preview Loop running.
FirstOpenStartsPreview ==
  [][(preview_arg /\ OpenSucceeds /\ nCalls = 1) =>
       /\ preview_running'
       /\ \E j \in DOMAIN previews' : previews'[j].pc # "done"]_vars

\* The request of the last describe call got a successful HTTP response with
\* a JSON body.
JsonBody ==
  caller.resp.net = "ok" /\ caller.resp.body \in {"object", "array", "null"}

StringField == caller.resp.body = "object" /\ caller.resp.field = "string"

\* C12, as stated: a successful HTTP response whose JSON body is anything
\* but an object with a string response field yields "Model returned empty
\* response."; "Vision request failed" comes from transport and HTTP errors
\* only.
OtherShapesAreEmpty ==
  /\ (JsonBody /\ ~StringField) =>
       caller.ret = "Model returned empty response."
  /\ caller.ret = "Vision request failed" => caller.resp.net # "ok"

\* C12, the part that holds: a JSON object without a response field, or with
\* a string that is empty after trimming, yields the placeholder.
EmptyFieldIsPlaceholder ==
  (/\ JsonBody /\ caller.resp.body = "object"
   /\ \/ caller.resp.field = "missing"
      \/ caller.resp.field = "string" /\ Strip(caller.resp.text) = <<>>)
  => caller.ret = "Model returned empty response."

\* The threads inside a Frame Store critical section: a Capture Loop between
\* acquiring the lock and leaving the with block (lines 100-101), the caller
\* or a Preview Loop inside get_frame()'s with block (lines 111-112).
InCritical ==
  {LoopId(i) : i \in {k \in DOMAIN loops : loops[k].pc \in {"l_store", "l_unlock"}}}
  \cup {PreviewId(j) :
          j \in {k \in DOMAIN previews : previews[k].pc \in {"p_copy", "p_unlock"}}}
  \cup (IF caller.pc \in {"g_copy", "g_unlock"} THEN {CallerId} ELSE {})

\* C13: at most one thread is inside a Frame Store critical section, and it
\* is the thread that owns the lock; so a Capture Loop about to replace
\* last_frame excludes every get_frame() read-and-copy.
OneInCritical ==
  /\ Cardinality(InCritical) <= 1
  /\ \A t \in InCritical : lock = t
  /\ InCritical = {} => lock = NoOwner

\* C13 witness: a Capture Loop is about to write last_frame while a Preview
\* Loop waits for the lock at the start of its get_frame().
WriterExcludesReader ==
  /\ \E i \in DOMAIN loops : loops[i].pc = "l_store"
  /\ \E j \in DOMAIN previews : previews[j].pc = "p_lock"

\* A thread is in the middle of a device read, a sleep, a render tick
\* (imshow, waitKey, destroyWindow) or a network request.
LoopInIO(i) == loops[i].pc \in {"reading", "l_sleep"}
PreviewInIO(j) == previews[j].pc \in {"p_render", "ph_pr"}
CallerInIO == caller.pc \in {"d_post", "h_pr"}

\* C14: a thread that is in the middle of a device read, a sleep, a render
\* or a network request does not own the lock; the thread that owns the lock
\* is one or two of its own steps away from releasing it, and each of those
\* steps can be taken at once.
LockNotHeldAcrossIO ==
  /\ \A i \in DOMAIN loops :
       /\ LoopInIO(i) => lock # LoopId(i)
       /\ lock = LoopId(i) =>
            \/ loops[i].pc = "l_store" /\ ENABLED LoopStore(i)
            \/ loops[i].pc = "l_unlock" /\ ENABLED LoopUnlock(i)
  /\ \A j \in DOMAIN previews :
       /\ PreviewInIO(j) => lock # PreviewId(j)
       /\ lock = PreviewId(j) =>
            \/ previews[j].pc = "p_copy" /\ ENABLED PreviewCopy(j)
            \/ previews[j].pc = "p_unlock" /\ ENABLED PreviewUnlock(j)
  /\ CallerInIO => lock # CallerId
  /\ lock = CallerId =>
       \/ caller.pc = "g_copy" /\ ENABLED GetCopy
       \/ caller.pc = "g_unlock" /\ ENABLED GetUnlock

\* C14 witness: the caller's network request, a device read and a render
\* tick are in progress at once and the lock is free.
AllInIO ==
  /\ caller.pc = "d_post"
  /\ \E i \in DOMAIN loops : loops[i].pc = "reading"
  /\ \E j \in DOMAIN previews : previews[j].pc = "p_render"
  /\ lock = NoOwner

\* C15, as stated: a failed device read changes nothing but the loop's own
\* position, and (under FairSpec) is followed by another read attempt of the
\* same loop unless running becomes false.
FailedReadIsRetried ==
  /\ [][\A i \in DOMAIN loops :
          (LoopReadFail(i) \/ LoopSleep(i)) =>
            UNCHANGED <<running, cap, last_frame, lock, handles, caller,
                        stored>>]_vars
  /\ \A i \in 1..MaxCalls :
       (i \in DOMAIN loops /\ loops[i].pc = "l_sleep")
         ~> (i \in DOMAIN loops /\ (loops[i].pc = "reading" \/ ~running))

\* C15, the part that holds: the failed read and the sleep after it change
\* nothing but the loop's own position and lead back to the loop test, and
\* the loop test leaves the loop only when running is false or the cap field
\* is None, however many reads have failed.
FailedReadChangesNothing ==
  [][\A i \in DOMAIN loops :
       /\ (LoopReadFail(i) \/ LoopSleep(i)) =>
            UNCHANGED <<running, cap, last_frame, lock, handles, caller,
                        stored>>
       /\ LoopSleep(i) => loops'[i].pc = "l_run"
       /\ (loops[i].pc \in {"l_run", "l_cap"} /\ loops'[i].pc = "x_test") =>
            (~running \/ cap = None)]_vars

\* The Capture Loop threads that have not ended.
AliveLoops == {i \in DOMAIN loops : LoopAlive(i)}

\* C16, as stated: at most one Capture Loop thread is alive at any time.
OneCaptureLoop == Cardinality(AliveLoops) <= 1

\* C17, as stated: no Capture Loop thread ends on an AttributeError from
\* read() or release() on None; no acquired handle is released twice; and
\* once running is false, no call is in progress and every Capture Loop has
\* ended, every acquired handle has been released once.
HandlesReleasedOnce ==
  /\ \A i \in DOMAIN loops : loops[i].pc # "crashed"
  /\ \A h \in DOMAIN handles :
       handles[h].acquired => handles[h].releases <= 1
  /\ (~running /\ caller.pc = "idle" /\ AliveLoops = {}) =>
       \A h \in DOMAIN handles :
         handles[h].acquired => handles[h].releases = 1

\* The Preview Loop threads that have not ended.
AlivePreviews == {j \in DOMAIN previews : PreviewAlive(j)}

\* C18, as stated: at most one Preview Loop thread is alive at any time.
OnePreviewLoop == Cardinality(AlivePreviews) <= 1

\* C19: once a frame is stored the slot is never empty again, whatever step
\* is taken; a get_frame() that finds a frame returns a copy of it and a
\* describe_current_view() that got one goes on to the request, whether or
\* not the controller is still capturing.
StoredFrameStays ==
  [][/\ last_frame # NoFrame => last_frame' # NoFrame
     /\ (GetCopy /\ last_frame # NoFrame) =>
          (caller'.frame.px = last_frame /\ caller'.frame # NoRef)
     /\ (GetUnlock /\ caller.frame # NoRef) =>
          \/ caller.op = "get_frame" /\ caller'.ret = "frame"
          \/ caller.op = "describe_current_view" /\ caller'.pc = "d_post"
    ]_vars

\* C19 witness: after close(), with every Capture Loop ended and the device
\* released, describe_current_view() has sent the last captured frame.
StaleFrameDescribed ==
  /\ ~running
  /\ loops # <<>> /\ AliveLoops = {}
  /\ cap = None
  /\ last_frame \in Pixels
  /\ caller.pc = "idle" /\ caller.line = 122
  /\ caller.resp # NoResp
  /\ netRequests = 1

====
